---- MODULE Spec2Model ----
(***************************************************************************)
(* The UDP file share of "File Share/UDP": Sender (sender.py) and Receiver *)
(* (receiver.py), both Client (client.py), over two datagram channels.     *)
(* Datagrams are byte sequences, framed and parsed as the code does.       *)
(***************************************************************************)
EXTENDS Integers, Sequences, FiniteSets, TLC

\* ------------------------------------------------------------------ bounds
\* Largest file, in bytes, that Init draws.
MaxFileSize == 3
\* Largest packet_size (payload bytes per packet) that Init draws.
MaxPacketSize == 2
\* Largest window_size that Init draws.
MaxWindow == 2
\* Datagrams a channel holds; a sendto on a full channel blocks.
MaxChan == 3
\* Channel faults (loss, duplication, reordering, early timeout) per run.
MaxFaults == 1
\* Scenario A draws the contents of its file from the patterns 0..MaxPattern.
MaxPattern == 2

\* ----------------------------------------------------------- byte helpers
Min(a, b) == IF a < b THEN a ELSE b

Range(s) == {s[i] : i \in 1..Len(s)}

\* Python's s[a:b] on a byte sequence (0-based, clamped to the length).
Slice(s, a, b) == SubSeq(s, a + 1, Min(b, Len(s)))

\* Python's s[a:].
SliceFrom(s, a) == SubSeq(s, a + 1, Len(s))

\* int.from_bytes(b, "big").
RECURSIVE from_bytes_upto(_, _)
from_bytes_upto(b, k) ==
    IF k = 0 THEN 0 ELSE from_bytes_upto(b, k - 1) * 256 + b[k]

from_bytes(b) == from_bytes_upto(b, Len(b))

\* n.to_bytes(8, "big"), for 0 <= n < 2^32.
to_bytes(n) ==
    [i \in 1..8 |-> IF i <= 4 THEN 0 ELSE (n \div (256 ^ (8 - i))) % 256]

\* The digest that stands for MD5: a deterministic function of the bytes,
\* one that any change of a single byte changes. It is a sum weighted by
\* position, taken by halves.
RECURSIVE digest_between(_, _, _)
digest_between(data, lo, hi) ==
    IF lo > hi THEN 0
    ELSE IF lo = hi THEN (lo * (data[lo] + 1)) % 65521
    ELSE CHOOSE sum \in {(digest_between(data, lo, mid)
                          + digest_between(data, mid + 1, hi)) % 65521 :
                         mid \in {(lo + hi) \div 2}} : TRUE

digest(data) == (7 + digest_between(data, 1, Len(data))) % 65521

\* One lowercase hexadecimal digit, as its ASCII code.
hexchar(d) == IF d < 10 THEN 48 + d ELSE 87 + d

\* Client.checksum: the hexdigest, 32 lowercase hexadecimal characters.
checksum(data) ==
    [i \in 1..32 |->
        IF i <= 28 THEN 48 ELSE hexchar((digest(data) \div (16 ^ (32 - i))) % 16)]

\* "ACK" and "NACK" in ASCII.
ACK == <<65, 67, 75>>
NACK == <<78, 65, 67, 75>>

\* Whether bytes.decode("utf-8") succeeds; exact for the bytes below 128,
\* which are all the model's files and names hold.
utf8_ok(b) == \A i \in 1..Len(b) : b[i] < 128

\* Whether bytes.decode("ascii") succeeds.
ascii_ok(b) == \A i \in 1..Len(b) : b[i] < 128

\* ------------------------------------------------------------------ state
VARIABLES
    file,               \* the bytes of the file at Sender.file_path
    file_name,          \* os.path.basename(file_path), as bytes
    packet_size,        \* Client.packet_size, the same on both sides
    window_size,        \* Sender.window_size
    s_pc,               \* where the Sender is
    s_current_package,  \* Sender.current_package
    file_data,          \* Sender.file_data: the packets' contents, in order
    window,             \* Sender.window: positions in file_data, 0-based
    is_awaiting_ack,    \* Packet.is_awaiting_ack of every packet of file_data
    s_status,           \* what check_current_package_status returned last
    r_pc,               \* where the Receiver is
    r_current_package,  \* Receiver.current_package
    buffer,             \* Receiver.buffer
    buffer_size,        \* Receiver.buffer_size
    r_file_size,        \* file_size of Receiver.handle_connection
    r_file_name,        \* file_name of Receiver.handle_connection
    output,             \* the file the Receiver wrote: <<>> or <<bytes>>
    to_receiver,        \* datagrams in flight, Sender to Receiver
    to_sender,          \* datagrams in flight, Receiver to Sender
    faults,             \* channel faults so far
    debug,              \* whether logging is at level DEBUG
    sent,               \* logged transmissions of each data packet: 0, 1, 2 = more
    dropped,            \* the data packet whose first transmission was dropped
    s_message,          \* message of check_current_package_status, while it runs
    u_pc,               \* where UDPSpeedTest.send_data is
    u_current_packet,   \* current_packet of send_data
    u_bytes_transmitted,\* bytes_transmitted of send_data
    u_lost_packets,     \* lost_packets of send_data
    d_pc,               \* where UDPSpeedTest.receive_data is
    d_message,          \* message of the recvall that receive_data is in
    d_pbar,             \* pbar of receive_data: None until the first packet
    d_received_data_size, \* received_data_size of receive_data
    d_packets_lost,     \* packets_lost of receive_data
    d_current_packet,   \* current_packet of receive_data
    d_status,           \* status of receive_data's second loop
    d_error,            \* ECONNREFUSED pending on the receiving socket
    d_timeouts,         \* timeouts of receive_data's first loop so far
    to_upload,          \* datagrams in flight, receive_data to send_data
    to_download         \* datagrams in flight, send_data to receive_data

vars == <<file, file_name, packet_size, window_size, s_pc, s_current_package,
          file_data, window, is_awaiting_ack, s_status, r_pc, r_current_package,
          buffer, buffer_size, r_file_size, r_file_name, output, to_receiver,
          to_sender, faults, debug, sent, dropped, s_message,
          u_pc, u_current_packet, u_bytes_transmitted, u_lost_packets,
          d_pc, d_message, d_pbar, d_received_data_size, d_packets_lost,
          d_current_packet, d_status, d_error, d_timeouts, to_upload,
          to_download>>

inputs == <<file, file_name, packet_size, window_size, debug>>
sender_vars == <<s_pc, s_current_package, file_data, window, is_awaiting_ack,
                 s_status, sent, s_message>>
receiver_vars == <<r_pc, r_current_package, buffer, buffer_size, r_file_size,
                   r_file_name, output>>
upload_vars == <<u_pc, u_current_packet, u_bytes_transmitted, u_lost_packets>>
download_vars == <<d_pc, d_message, d_pbar, d_received_data_size, d_packets_lost,
                   d_current_packet, d_status, d_error, d_timeouts>>
speedtest_vars == <<upload_vars, download_vars, to_upload, to_download>>
file_share_vars == <<inputs, sender_vars, receiver_vars, to_receiver, to_sender,
                     dropped>>

\* ----------------------------------------------------------------- Sender
\* Sender.create_packet: index, size, checksum and the data.
create_packet(packet_index, data) ==
    to_bytes(packet_index) \o to_bytes(Len(data)) \o checksum(data) \o data

\* The number of chunks file.read(packet_size) yields before b"".
n_packets(f, ps) == (Len(f) + ps - 1) \div ps

\* read_file that stops at the first chunk shorter than packet_size: the
\* last bytes of the file make no packet.
read_file_data_whole_chunks(f, ps) ==
    [k \in 1..(Len(f) \div ps) |-> create_packet(k - 1, Slice(f, (k - 1) * ps, k * ps))]

\* Sender.read_file, file_data: one packet per chunk, indices from 0.
read_file_data(f, ps) ==
    [k \in 1..n_packets(f, ps) |-> create_packet(k - 1, Slice(f, (k - 1) * ps, k * ps))]

\* can_add_to_window without its test: read_file puts every packet of the
\* file in the window.
can_add_to_window_always(w, ws) == TRUE

\* Sender.can_add_to_window.
can_add_to_window(w, ws) == Len(w) < ws

\* Sender.read_file, window: a packet joins while can_add_to_window.
RECURSIVE read_file_window(_, _, _, _)
read_file_window(w, packet_index, n, ws) ==
    IF packet_index >= n THEN w
    ELSE read_file_window(IF can_add_to_window(w, ws) THEN Append(w, packet_index) ELSE w,
                          packet_index + 1, n, ws)

\* The packet index a datagram carries, content[0:8].
index_of(content) == from_bytes(Slice(content, 0, 8))

\* The payload of a data packet, content[48:].
payload_of(content) == SliceFrom(content, 48)

\* The debug log of send_packet ("Enviando pacote ..."), kept as the number
\* of transmissions of each packet, which stops at 2; logged when debug is on.
count_sent(snt, p) == IF debug THEN [snt EXCEPT ![p] = Min(2, @ + 1)] ELSE snt

\* Sender.send_packet on a channel with room: sendto, then is_awaiting_ack.
send_packet(st, p, content) ==
    [aw |-> [st.aw EXCEPT ![p] = TRUE],
     ch |-> Append(st.ch, content),
     sent |-> count_sent(st.sent, p)]

\* The for loop without the test of is_awaiting_ack: every pass sends the
\* whole window again.
RECURSIVE transmit_regardless(_, _, _, _)
transmit_regardless(w, i, fd, st) ==
    IF i > Len(w) THEN st
    ELSE IF Len(st.ch) >= MaxChan THEN st
    ELSE transmit_regardless(w, i + 1, fd, send_packet(st, w[i], fd[w[i] + 1]))

\* The for loop of Sender.handle_connection: every window element that is not
\* awaiting is sent, in window order; a sendto that times out (no room in the
\* channel) ends the pass.
RECURSIVE transmit(_, _, _, _)
transmit(w, i, fd, st) ==
    IF i > Len(w) THEN st
    ELSE IF st.aw[w[i]] THEN transmit(w, i + 1, fd, st)
    ELSE IF Len(st.ch) >= MaxChan THEN st
    ELSE transmit(w, i + 1, fd, send_packet(st, w[i], fd[w[i] + 1]))

\* Sender.resend: for every packet of file_data[resend_index:resend_index +
\* window_size] the head of the window leaves, not awaiting any more, and the
\* packet joins at the tail. popleft on an empty window raises.
RECURSIVE resend_loop(_, _)
resend_loop(st, packets) ==
    IF packets = <<>> \/ st.raised THEN st
    ELSE IF st.window = <<>> THEN [st EXCEPT !.raised = TRUE]
    ELSE resend_loop([window |-> Append(Tail(st.window), Head(packets)),
                      aw |-> [st.aw EXCEPT ![Head(st.window)] = FALSE],
                      raised |-> FALSE],
                     Tail(packets))

\* Sender.resend that takes the packets from the start of file_data, whatever
\* resend_index is.
resend_from_start(w, aw, resend_index, n, ws) ==
    resend_loop([window |-> w, aw |-> aw, raised |-> FALSE],
                [k \in 1..Min(ws, n) |-> k - 1])

resend(w, aw, resend_index, n, ws) ==
    resend_loop([window |-> w, aw |-> aw, raised |-> FALSE],
                [k \in 1..(Min(resend_index + ws, n) - Min(resend_index, n)) |->
                    resend_index + k - 1])

\* The while test of Sender.handle_connection and, when the window is not
\* empty, the transmit pass before check_current_package_status.
Sender_loop(w, aw, ch, fd, snt) ==
    IF w = <<>>
    THEN /\ s_pc' = "done"
         /\ is_awaiting_ack' = aw
         /\ to_receiver' = ch
         /\ sent' = snt
    ELSE \E t \in {transmit(w, 1, fd, [aw |-> aw, ch |-> ch, sent |-> snt])} :
         /\ s_pc' = "recv"
         /\ is_awaiting_ack' = t.aw
         /\ to_receiver' = t.ch
         /\ sent' = t.sent

\* Line 166 without its test: any first datagram starts the transfer.
is_ready_always(message_start) == TRUE

\* Line 166: the first datagram says the other side is ready when it is empty.
is_ready(message_start) == message_start = <<>>

\* Sender.handle_connection up to the first recvfrom of the loop: the first
\* datagram must be empty (else the call returns and select waits again);
\* then the file size and name go out, read_file fills file_data and window.
Sender_handle_connection ==
    /\ s_pc = "start"
    /\ to_sender # <<>>
    /\ to_sender' = Tail(to_sender)
    /\ IF ~is_ready(Head(to_sender))
       THEN UNCHANGED <<sender_vars, to_receiver>>
       ELSE \E fd \in {read_file_data(file, packet_size)} :
            LET w == read_file_window(<<>>, 0, Len(fd), window_size)
                info == to_bytes(Len(file)) \o file_name
            IN /\ file_data' = fd
               /\ window' = w
               /\ Sender_loop(w, [p \in 0..(Len(fd) - 1) |-> FALSE],
                              Append(to_receiver, info), fd,
                              [p \in 0..(Len(fd) - 1) |-> 0])
               /\ UNCHANGED <<s_current_package, s_status, s_message>>
    /\ UNCHANGED <<speedtest_vars, inputs, receiver_vars, faults, dropped>>

\* Line 135 with != for >: a reply that names a packet before
\* current_package starts a resend as well.
is_ahead_or_behind(ack_packet_index, current_package) == ack_packet_index # current_package

\* Line 135: the reply names a packet after current_package.
is_ahead(ack_packet_index, current_package) == ack_packet_index > current_package

\* Line 145 without the test of the status: a NACK for current_package is
\* taken for its acknowledgement.
is_rejected_ignoring_status(ack_packet_index, status, current_package) ==
    ack_packet_index < current_package

\* Line 145: the reply names a packet before current_package, or is a NACK.
is_rejected(ack_packet_index, status, current_package) ==
    ack_packet_index < current_package \/ status = NACK

\* Sender.check_current_package_status on a datagram, up to its return or,
\* for the acknowledgement of current_package, up to the append of the next
\* packet (lines 148-155). decode("ascii") of the status raises
\* UnicodeDecodeError on a byte above 127, which nothing catches.
Sender_check_current_package_status ==
    /\ s_pc = "recv"
    /\ to_sender # <<>>
    /\ to_sender' = Tail(to_sender)
    /\ LET message == Head(to_sender)
           ack_packet_index == from_bytes(Slice(message, 0, 8))
           status == SliceFrom(message, 8)
           n == Len(file_data)
           next_packet_index == s_current_package + window_size
       IN IF message = <<>>
          THEN /\ s_status' = FALSE
               /\ Sender_loop(window, is_awaiting_ack, to_receiver, file_data, sent)
               /\ UNCHANGED <<window, s_message>>
          ELSE IF ~ascii_ok(status)
          THEN /\ s_pc' = "raised"
               /\ UNCHANGED <<window, s_status, s_message, is_awaiting_ack,
                              to_receiver, sent>>
          ELSE IF is_ahead(ack_packet_index, s_current_package)
          THEN \E r \in {resend(window, is_awaiting_ack, ack_packet_index, n, window_size)} :
               /\ s_status' = FALSE
               /\ window' = r.window
               /\ IF r.raised
                  THEN /\ s_pc' = "raised"
                       /\ is_awaiting_ack' = r.aw
                       /\ UNCHANGED <<to_receiver, sent>>
                  ELSE Sender_loop(r.window, r.aw, to_receiver, file_data, sent)
               /\ UNCHANGED s_message
          ELSE IF is_rejected(ack_packet_index, status, s_current_package)
          THEN /\ s_status' = FALSE
               /\ Sender_loop(window, is_awaiting_ack, to_receiver, file_data, sent)
               /\ UNCHANGED <<window, s_message>>
          ELSE /\ s_pc' = "slide"
               /\ s_message' = message
               /\ window' = IF next_packet_index < n
                            THEN Append(window, next_packet_index)
                            ELSE window
               /\ UNCHANGED <<s_status, is_awaiting_ack, to_receiver, sent>>
    /\ UNCHANGED <<speedtest_vars, inputs, s_current_package, file_data, receiver_vars, faults, dropped>>

\* The rest of Sender.check_current_package_status for the acknowledgement
\* of current_package (lines 156-158), and on to the next recvfrom.
Sender_slide ==
    /\ s_pc = "slide"
    /\ window' = Tail(window)
    /\ s_current_package' = s_current_package + 1
    /\ s_status' = TRUE
    /\ s_message' = <<>>
    /\ Sender_loop(Tail(window), is_awaiting_ack, to_receiver, file_data, sent)
    /\ UNCHANGED <<speedtest_vars, inputs, file_data, receiver_vars, to_sender, faults, dropped>>

\* recvfrom of check_current_package_status times out: resend from
\* current_package, return True, and on to the next recvfrom.
Sender_timeout_body ==
    \E r \in {resend(window, is_awaiting_ack, s_current_package, Len(file_data), window_size)} :
    /\ s_status' = TRUE
    /\ window' = r.window
    /\ IF r.raised
       THEN /\ s_pc' = "raised"
            /\ is_awaiting_ack' = r.aw
            /\ UNCHANGED <<to_receiver, sent>>
       ELSE Sender_loop(r.window, r.aw, to_receiver, file_data, sent)
    /\ UNCHANGED <<speedtest_vars, inputs, s_current_package, file_data, s_message, receiver_vars,
                   to_sender, dropped>>

\* The timeout with nothing to receive.
Sender_timeout ==
    /\ s_pc = "recv"
    /\ to_sender = <<>>
    /\ Sender_timeout_body
    /\ UNCHANGED faults

\* The timeout that fires while a datagram is still on its way.
Sender_timeout_early ==
    /\ s_pc = "recv"
    /\ to_sender # <<>>
    /\ faults < MaxFaults
    /\ faults' = faults + 1
    /\ Sender_timeout_body

\* --------------------------------------------------------------- Receiver
\* Receiver.send_packet: current_package and the status.
control_packet(current_package, message) == to_bytes(current_package) \o message

\* receive_packet with the payload taken one byte early, data[47:].
receive_packet_early_payload(data) ==
    IF data = <<>> THEN [none |-> TRUE]
    ELSE [none |-> FALSE,
          packet_index |-> from_bytes(Slice(data, 0, 8)),
          packet_data_size |-> from_bytes(Slice(data, 8, 16)),
          packet_checksum |-> Slice(data, 16, 48),
          packet_data |-> SliceFrom(data, 47)]

\* Receiver.receive_packet on a datagram: its four fields; an empty datagram
\* (and a timeout) gives None for all four.
None == [none |-> TRUE]

receive_packet(data) ==
    IF data = <<>> THEN None
    ELSE [none |-> FALSE,
          packet_index |-> from_bytes(Slice(data, 0, 8)),
          packet_data_size |-> from_bytes(Slice(data, 8, 16)),
          packet_checksum |-> Slice(data, 16, 48),
          packet_data |-> SliceFrom(data, 48)]

\* The loop of check_package without its step of current_package: the
\* Receiver stays rewound to the packet it acknowledged again.
RECURSIVE resend_acks_without_step(_, _, _)
resend_acks_without_step(current_package, replies, diff) ==
    IF diff = 0 THEN [current_package |-> current_package, replies |-> replies]
    ELSE resend_acks_without_step(current_package,
                                  Append(replies, control_packet(current_package, ACK)),
                                  diff - 1)

\* The loop of check_package for a packet below current_package (lines
\* 99-102): from packet_index, send_ack and step current_package, diff times.
RECURSIVE resend_acks(_, _, _)
resend_acks(current_package, replies, diff) ==
    IF diff = 0 THEN [current_package |-> current_package, replies |-> replies]
    ELSE resend_acks(current_package + 1,
                     Append(replies, control_packet(current_package, ACK)),
                     diff - 1)

\* check_package without the test for a packet above current_package: a
\* packet that arrives early passes when its size and checksum are right.
check_package_accepting_ahead(packet, current_package) ==
    IF packet.none
    THEN [ok |-> FALSE, current_package |-> current_package,
          replies |-> <<control_packet(current_package, NACK)>>]
    ELSE IF packet.packet_index < current_package
    THEN [ok |-> FALSE] @@ resend_acks(packet.packet_index, <<>>,
                                       current_package - packet.packet_index)
    ELSE IF \/ Len(packet.packet_data) # packet.packet_data_size
            \/ checksum(packet.packet_data) # packet.packet_checksum
    THEN [ok |-> FALSE, current_package |-> current_package,
          replies |-> <<control_packet(current_package, NACK)>>]
    ELSE [ok |-> TRUE, current_package |-> current_package, replies |-> <<>>]

\* check_package without the test for a packet below current_package: a
\* packet that comes again passes when its size and checksum are right.
check_package_accepting_again(packet, current_package) ==
    IF packet.none
    THEN [ok |-> FALSE, current_package |-> current_package,
          replies |-> <<control_packet(current_package, NACK)>>]
    ELSE IF packet.packet_index > current_package
    THEN [ok |-> FALSE, current_package |-> current_package,
          replies |-> <<control_packet(current_package, NACK)>>]
    ELSE IF \/ Len(packet.packet_data) # packet.packet_data_size
            \/ checksum(packet.packet_data) # packet.packet_checksum
    THEN [ok |-> FALSE, current_package |-> current_package,
          replies |-> <<control_packet(current_package, NACK)>>]
    ELSE [ok |-> TRUE, current_package |-> current_package, replies |-> <<>>]

\* check_package with the NACK for a packet above current_package naming
\* that packet: the NACK carries the index that arrived, not the one expected.
check_package_nacking_arrival(packet, current_package) ==
    IF packet.none
    THEN [ok |-> FALSE, current_package |-> current_package,
          replies |-> <<control_packet(current_package, NACK)>>]
    ELSE IF packet.packet_index < current_package
    THEN [ok |-> FALSE] @@ resend_acks(packet.packet_index, <<>>,
                                       current_package - packet.packet_index)
    ELSE IF packet.packet_index > current_package
    THEN [ok |-> FALSE, current_package |-> current_package,
          replies |-> <<control_packet(packet.packet_index, NACK)>>]
    ELSE IF \/ Len(packet.packet_data) # packet.packet_data_size
            \/ checksum(packet.packet_data) # packet.packet_checksum
    THEN [ok |-> FALSE, current_package |-> current_package,
          replies |-> <<control_packet(current_package, NACK)>>]
    ELSE [ok |-> TRUE, current_package |-> current_package, replies |-> <<>>]

\* check_package that sends nothing when receive_packet timed out.
check_package_silent_on_timeout(packet, current_package) ==
    IF packet.none
    THEN [ok |-> FALSE, current_package |-> current_package, replies |-> <<>>]
    ELSE IF packet.packet_index < current_package
    THEN [ok |-> FALSE] @@ resend_acks(packet.packet_index, <<>>,
                                       current_package - packet.packet_index)
    ELSE IF packet.packet_index > current_package
    THEN [ok |-> FALSE, current_package |-> current_package,
          replies |-> <<control_packet(current_package, NACK)>>]
    ELSE IF \/ Len(packet.packet_data) # packet.packet_data_size
            \/ checksum(packet.packet_data) # packet.packet_checksum
    THEN [ok |-> FALSE, current_package |-> current_package,
          replies |-> <<control_packet(current_package, NACK)>>]
    ELSE [ok |-> TRUE, current_package |-> current_package, replies |-> <<>>]

\* Receiver.check_package: whether the packet is the one to accept, the
\* control packets sent while finding out, and current_package afterwards.
check_package(packet, current_package) ==
    IF packet.none
    THEN [ok |-> FALSE, current_package |-> current_package,
          replies |-> <<control_packet(current_package, NACK)>>]
    ELSE IF packet.packet_index < current_package
    THEN [ok |-> FALSE] @@ resend_acks(packet.packet_index, <<>>,
                                       current_package - packet.packet_index)
    ELSE IF packet.packet_index > current_package
    THEN [ok |-> FALSE, current_package |-> current_package,
          replies |-> <<control_packet(current_package, NACK)>>]
    ELSE IF \/ Len(packet.packet_data) # packet.packet_data_size
            \/ checksum(packet.packet_data) # packet.packet_checksum
    THEN [ok |-> FALSE, current_package |-> current_package,
          replies |-> <<control_packet(current_package, NACK)>>]
    ELSE [ok |-> TRUE, current_package |-> current_package, replies |-> <<>>]

\* b"".join(buffer).
RECURSIVE join_upto(_, _)
join_upto(chunks, k) == IF k = 0 THEN <<>> ELSE join_upto(chunks, k - 1) \o chunks[k]

join(chunks) == join_upto(chunks, Len(chunks))

\* The while test with <= for <, turned the wrong way round: the loop ends
\* one byte short of the announced size.
Receiver_loop_ending_early(buf, size, fsize, name) ==
    IF size + 1 < fsize
    THEN r_pc' = "loop" /\ output' = output
    ELSE IF 0 \in Range(name) \/ name = <<>>
    THEN r_pc' = "raised" /\ output' = output
    ELSE r_pc' = "done" /\ output' = <<[name |-> name, bytes |-> join(buf)]>>

\* The while test with <= for <: the loop goes on while buffer_size equals
\* the announced size.
Receiver_loop_waiting_on_equal(buf, size, fsize, name) ==
    IF size <= fsize
    THEN r_pc' = "loop" /\ output' = output
    ELSE IF 0 \in Range(name) \/ name = <<>>
    THEN r_pc' = "raised" /\ output' = output
    ELSE r_pc' = "done" /\ output' = <<[name |-> name, bytes |-> join(buf)]>>

\* The while test of Receiver.handle_connection and what follows the loop:
\* open(file_name, "wb") raises on a name that holds a null byte, else the
\* joined buffer is written and the transfer is reported.
Receiver_loop(buf, size, fsize, name) ==
    IF size < fsize
    THEN r_pc' = "loop" /\ output' = output
    ELSE IF 0 \in Range(name) \/ name = <<>>
    THEN r_pc' = "raised" /\ output' = output
    ELSE r_pc' = "done" /\ output' = <<[name |-> name, bytes |-> join(buf)]>>

\* Receiver.prepare_socket: the empty datagram that says the receiver is ready.
Receiver_prepare_socket ==
    /\ r_pc = "init"
    /\ Len(to_sender) < MaxChan
    /\ to_sender' = Append(to_sender, <<>>)
    /\ r_pc' = "select"
    /\ UNCHANGED <<speedtest_vars, inputs, sender_vars, r_current_package, buffer, buffer_size,
                   r_file_size, r_file_name, output, to_receiver, faults, dropped>>

\* Receiver.handle_connection up to the loop: the first datagram the socket
\* has is taken for the file size and name.
Receiver_handle_connection ==
    /\ r_pc = "select"
    /\ to_receiver # <<>>
    /\ to_receiver' = Tail(to_receiver)
    /\ \E packet \in {Slice(Head(to_receiver), 0, 1032)} :
       IF packet = <<>>
       THEN /\ r_pc' = "failed"
            /\ UNCHANGED <<r_file_size, r_file_name, output>>
       ELSE IF ~utf8_ok(SliceFrom(packet, 8))
       THEN /\ r_pc' = "raised"
            /\ r_file_size' = from_bytes(Slice(packet, 0, 8))
            /\ UNCHANGED <<r_file_name, output>>
       ELSE /\ r_file_size' = from_bytes(Slice(packet, 0, 8))
            /\ r_file_name' = SliceFrom(packet, 8)
            /\ Receiver_loop(buffer, buffer_size, from_bytes(Slice(packet, 0, 8)),
                             SliceFrom(packet, 8))
    /\ UNCHANGED <<speedtest_vars, inputs, sender_vars, r_current_package, buffer, buffer_size,
                   to_sender, faults, dropped>>

\* The loop turn that acknowledges after the step of current_package: the ACK
\* names the packet after the one accepted.
Receiver_turn_acknowledging_next(packet) ==
    \E c \in {check_package(packet, r_current_package)} :
    IF ~c.ok
    THEN /\ Len(to_sender) + Len(c.replies) <= MaxChan
         /\ to_sender' = to_sender \o c.replies
         /\ r_current_package' = c.current_package
         /\ UNCHANGED <<r_pc, buffer, buffer_size, r_file_size, r_file_name, output>>
    ELSE /\ Len(to_sender) < MaxChan
         /\ to_sender' = Append(to_sender, control_packet(r_current_package + 1, ACK))
         /\ buffer' = Append(buffer, packet.packet_data)
         /\ buffer_size' = buffer_size + packet.packet_data_size
         /\ r_current_package' = r_current_package + 1
         /\ Receiver_loop(Append(buffer, packet.packet_data),
                          buffer_size + packet.packet_data_size,
                          r_file_size, r_file_name)
         /\ UNCHANGED <<r_file_size, r_file_name>>

\* One turn of the loop of Receiver.handle_connection on what receive_packet
\* returned: check_package, and for the packet it passes the ACK, the append
\* and the step of current_package; then the while test.
Receiver_turn(packet) ==
    \E c \in {check_package(packet, r_current_package)} :
    IF ~c.ok
    THEN /\ Len(to_sender) + Len(c.replies) <= MaxChan
         /\ to_sender' = to_sender \o c.replies
         /\ r_current_package' = c.current_package
         /\ UNCHANGED <<r_pc, buffer, buffer_size, r_file_size, r_file_name, output>>
    ELSE /\ Len(to_sender) < MaxChan
         /\ to_sender' = Append(to_sender, control_packet(r_current_package, ACK))
         /\ buffer' = Append(buffer, packet.packet_data)
         /\ buffer_size' = buffer_size + packet.packet_data_size
         /\ r_current_package' = r_current_package + 1
         /\ Receiver_loop(Append(buffer, packet.packet_data),
                          buffer_size + packet.packet_data_size,
                          r_file_size, r_file_name)
         /\ UNCHANGED <<r_file_size, r_file_name>>

\* The loop turn on a datagram, read with recvfrom(8 + 8 + 32 + packet_size).
\* In receive_packet, data[16:48].decode("ascii") raises UnicodeDecodeError on
\* a byte above 127, which nothing catches.
Receiver_receive_packet ==
    /\ r_pc = "loop"
    /\ to_receiver # <<>>
    /\ to_receiver' = Tail(to_receiver)
    /\ \E data \in {Slice(Head(to_receiver), 0, 8 + 8 + 32 + packet_size)} :
          IF ~ascii_ok(Slice(data, 16, 48))
          THEN /\ r_pc' = "raised"
               /\ UNCHANGED <<r_current_package, buffer, buffer_size, r_file_size,
                              r_file_name, output, to_sender>>
          ELSE \E packet \in {receive_packet(data)} : Receiver_turn(packet)
    /\ UNCHANGED <<speedtest_vars, inputs, sender_vars, faults, dropped>>

\* The loop turn when recvfrom times out with nothing to receive.
Receiver_timeout ==
    /\ r_pc = "loop"
    /\ to_receiver = <<>>
    /\ Receiver_turn(None)
    /\ UNCHANGED <<speedtest_vars, inputs, sender_vars, to_receiver, faults, dropped>>

\* The loop turn when recvfrom times out while a datagram is on its way.
Receiver_timeout_early ==
    /\ r_pc = "loop"
    /\ to_receiver # <<>>
    /\ faults < MaxFaults
    /\ faults' = faults + 1
    /\ Receiver_turn(None)
    /\ UNCHANGED <<speedtest_vars, inputs, sender_vars, to_receiver, dropped>>

\* Client.run: ctrl+c ends the receiver wherever it waits.
Receiver_interrupt ==
    /\ r_pc \in {"select", "loop"}
    /\ r_pc' = "interrupted"
    /\ UNCHANGED <<speedtest_vars, inputs, sender_vars, r_current_package, buffer, buffer_size,
                   r_file_size, r_file_name, output, to_receiver, to_sender,
                   faults, dropped>>

\* ---------------------------------------------------------------- channels
remove_at(ch, i) == SubSeq(ch, 1, i - 1) \o SubSeq(ch, i + 1, Len(ch))

\* Whether the lost datagram d is the first transmission of a data packet
\* (the log counts one transmission of it), and of which.
first_transmission(d) ==
    IF debug /\ Len(d) > 48 /\ index_of(d) \in DOMAIN sent
    THEN IF sent[index_of(d)] = 1 THEN index_of(d) ELSE -1
    ELSE -1

\* A datagram to the Receiver is lost.
Net_lose_data ==
    /\ faults < MaxFaults
    /\ \E i \in 1..Len(to_receiver) :
          /\ to_receiver' = remove_at(to_receiver, i)
          /\ dropped' = IF dropped = -1 THEN first_transmission(to_receiver[i]) ELSE dropped
    /\ faults' = faults + 1
    /\ UNCHANGED <<speedtest_vars, inputs, sender_vars, receiver_vars, to_sender>>

\* A datagram to the Sender is lost.
Net_lose_control ==
    /\ faults < MaxFaults
    /\ \E i \in 1..Len(to_sender) : to_sender' = remove_at(to_sender, i)
    /\ faults' = faults + 1
    /\ UNCHANGED <<speedtest_vars, inputs, sender_vars, receiver_vars, to_receiver, dropped>>

\* A datagram to the Receiver arrives twice.
Net_duplicate_data ==
    /\ faults < MaxFaults
    /\ Len(to_receiver) < MaxChan
    /\ \E i \in 1..Len(to_receiver) : to_receiver' = Append(to_receiver, to_receiver[i])
    /\ faults' = faults + 1
    /\ UNCHANGED <<speedtest_vars, inputs, sender_vars, receiver_vars, to_sender, dropped>>

\* A datagram to the Sender arrives twice.
Net_duplicate_control ==
    /\ faults < MaxFaults
    /\ Len(to_sender) < MaxChan
    /\ \E i \in 1..Len(to_sender) : to_sender' = Append(to_sender, to_sender[i])
    /\ faults' = faults + 1
    /\ UNCHANGED <<speedtest_vars, inputs, sender_vars, receiver_vars, to_receiver, dropped>>

\* A datagram to the Receiver overtakes the ones before it.
Net_reorder_data ==
    /\ faults < MaxFaults
    /\ \E i \in 2..Len(to_receiver) :
          /\ to_receiver[i] # to_receiver[1]
          /\ to_receiver' = <<to_receiver[i]>> \o remove_at(to_receiver, i)
    /\ faults' = faults + 1
    /\ UNCHANGED <<speedtest_vars, inputs, sender_vars, receiver_vars, to_sender, dropped>>

\* A datagram to the Sender overtakes the ones before it.
Net_reorder_control ==
    /\ faults < MaxFaults
    /\ \E i \in 2..Len(to_sender) :
          /\ to_sender[i] # to_sender[1]
          /\ to_sender' = <<to_sender[i]>> \o remove_at(to_sender, i)
    /\ faults' = faults + 1
    /\ UNCHANGED <<speedtest_vars, inputs, sender_vars, receiver_vars, to_receiver, dropped>>

\* The datagrams for a Receiver that has ended reach a closed socket.
Net_closed_receiver ==
    /\ r_pc \in {"done", "raised", "failed", "interrupted"}
    /\ to_receiver # <<>>
    /\ to_receiver' = <<>>
    /\ UNCHANGED <<speedtest_vars, inputs, sender_vars, receiver_vars, to_sender, faults, dropped>>

\* The datagrams for a Sender that has ended reach a closed socket.
Net_closed_sender ==
    /\ s_pc \in {"done", "raised"}
    /\ to_sender # <<>>
    /\ to_sender' = <<>>
    /\ UNCHANGED <<speedtest_vars, inputs, sender_vars, receiver_vars, to_receiver, faults, dropped>>

\* ------------------------------------------------------------------- Init
\* The i-th byte of the file.
file_byte(i) == (i * 41 + 23) % 128

\* The file's name, "f".
FileName == <<102>>

\* The fields that Sender(...) and Receiver(...) set, and their sockets.
file_share_fields ==
    /\ file_name = FileName
    /\ s_current_package = 0
    /\ file_data = <<>>
    /\ window = <<>>
    /\ is_awaiting_ack = <<>>
    /\ s_status = TRUE
    /\ s_message = <<>>
    /\ r_current_package = 0
    /\ buffer = <<>>
    /\ buffer_size = 0
    /\ r_file_size = 0
    /\ r_file_name = <<>>
    /\ output = <<>>
    /\ to_receiver = <<>>
    /\ to_sender = <<>>
    /\ faults = 0
    /\ sent = <<>>
    /\ dropped = -1

\* The locals that send_data and receive_data start with, and the sockets of
\* the two UDPSpeedTest(...).
speedtest_fields ==
    /\ u_current_packet = 0
    /\ u_bytes_transmitted = <<0, 0, 0>>
    /\ u_lost_packets = <<0, 0, 0>>
    /\ d_message = <<>>
    /\ d_pbar = "None"
    /\ d_received_data_size = <<0, 0, 0>>
    /\ d_packets_lost = <<0, 0, 0>>
    /\ d_current_packet = <<0, 0, 0>>
    /\ d_status = <<>>
    /\ d_error = FALSE
    /\ d_timeouts = 0
    /\ to_upload = <<>>
    /\ to_download = <<>>

\* The state after Sender(...), Receiver(...) and the two UDPSpeedTest(...)
\* were constructed.
Constructed ==
    /\ file_share_fields
    /\ s_pc = "start"
    /\ r_pc = "init"
    /\ speedtest_fields
    /\ u_pc = "init"
    /\ d_pc = "init"

Init ==
    /\ \E n \in 0..MaxFileSize : file = [i \in 1..n |-> file_byte(i)]
    /\ packet_size \in 1..MaxPacketSize
    /\ window_size \in 1..MaxWindow
    /\ debug = FALSE
    /\ Constructed

\* The steps of the two programs.
Programs ==
    \/ Sender_handle_connection
    \/ Sender_check_current_package_status
    \/ Sender_slide
    \/ Sender_timeout
    \/ Receiver_prepare_socket
    \/ Receiver_handle_connection
    \/ Receiver_receive_packet
    \/ Receiver_timeout
    \/ Receiver_interrupt
    \/ Net_closed_receiver
    \/ Net_closed_sender

\* What a channel that loses, duplicates, reorders and delays adds.
Faults ==
    \/ Sender_timeout_early
    \/ Receiver_timeout_early
    \/ Net_lose_data
    \/ Net_lose_control
    \/ Net_duplicate_data
    \/ Net_duplicate_control
    \/ Net_reorder_data
    \/ Net_reorder_control

Next == Programs \/ Faults

Spec == Init /\ [][Next]_vars

\* The same programs with logging at level DEBUG.
InitLogged ==
    /\ \E n \in 0..MaxFileSize : file = [i \in 1..n |-> file_byte(i)]
    /\ packet_size \in 1..MaxPacketSize
    /\ window_size \in 1..MaxWindow
    /\ debug = TRUE
    /\ Constructed

\* The steps of the Sender and of the Receiver when nobody presses ctrl+c.
SenderStep ==
    \/ Sender_handle_connection
    \/ Sender_check_current_package_status
    \/ Sender_slide
    \/ Sender_timeout

ReceiverStep ==
    \/ Receiver_prepare_socket
    \/ Receiver_handle_connection
    \/ Receiver_receive_packet
    \/ Receiver_timeout

\* The two programs left to run over channels that keep the order of the
\* datagrams and lose at most MaxFaults of them.
FairNext ==
    \/ SenderStep
    \/ ReceiverStep
    \/ Net_closed_receiver
    \/ Net_lose_data
    \/ Net_lose_control

\* What the scheduling guarantees: each program goes on running. A datagram
\* that arrived is read by the recvfrom that waits for it, and a recvfrom with
\* nothing to read for the whole of its timeout raises timeout; the next
\* recvfrom waits its full timeout anew, so nothing makes a timeout fire while
\* datagrams keep arriving. Losses are the channel's choice, never forced.
Fairness ==
    /\ WF_vars(SenderStep)
    /\ WF_vars(ReceiverStep)

FairSpec == InitLogged /\ [][FairNext]_vars /\ Fairness

\* FairSpec where, in addition, the datagrams sent to a Receiver that has
\* ended are discarded by its host: a closed socket keeps nothing queued, so
\* the Sender's sendto does not fail for ever.
FairSpecClosed ==
    /\ InitLogged
    /\ [][FairNext]_vars
    /\ Fairness
    /\ WF_vars(Net_closed_receiver)

\* The i-th byte of the file of pattern k; pattern 0 is the file of zeros.
pattern_byte(k, i) == ((i * 41 + 23) * k) % 128

\* Scenario A: a file of 2500 bytes, packet_size 500 and window_size 4, with
\* logging at level DEBUG.
InitA ==
    /\ \E k \in 0..MaxPattern : file = [i \in 1..2500 |-> pattern_byte(k, i)]
    /\ packet_size = 500
    /\ window_size = 4
    /\ debug = TRUE
    /\ Constructed

\* The two programs over channels that lose, duplicate and reorder nothing and
\* deliver every datagram before the timeout of the recvfrom that waits for it.
NextA ==
    \/ Sender_handle_connection
    \/ Sender_check_current_package_status
    \/ Sender_slide
    \/ Receiver_prepare_socket
    \/ Receiver_handle_connection
    \/ Receiver_receive_packet

SpecA == InitA /\ [][NextA]_vars

\* One bit of a byte, flipped.
flip(byte, bit) ==
    IF (byte \div (2 ^ bit)) % 2 = 1 THEN byte - 2 ^ bit ELSE byte + 2 ^ bit

\* The indices and payloads of the datagrams that other hosts send to the
\* Receiver's port: payloads of up to packet_size bytes, low and high.
stray_indices == 0..MaxFileSize
stray_payloads ==
    UNION {[1..n -> {0, 200}] : n \in 0..packet_size}

\* Datagrams that reach the Receiver's port without coming from the Sender:
\* well-formed data packets, packets with a wrong size field, datagrams
\* shorter than the 48 bytes of a header, one of them with a byte above 127.
stray_data ==
    {create_packet(i, P) : i \in stray_indices, P \in stray_payloads}
    \cup {to_bytes(i) \o to_bytes(Len(P) + 1) \o checksum(P) \o P :
            i \in stray_indices, P \in stray_payloads}
    \cup {Slice(create_packet(i, <<>>), 0, n) : i \in stray_indices, n \in {1, 8, 16, 47}}
    \cup {to_bytes(i) \o to_bytes(0) \o <<200>> : i \in stray_indices}

\* Datagrams that reach the Sender's port without coming from the Receiver.
stray_control ==
    {control_packet(0, ACK), control_packet(1, NACK), <<0>>,
     to_bytes(0) \o <<200>>}

\* A datagram of another host arrives at the Receiver.
Net_stray_data ==
    /\ faults < MaxFaults
    /\ Len(to_receiver) < MaxChan
    /\ \E d \in stray_data : to_receiver' = Append(to_receiver, d)
    /\ faults' = faults + 1
    /\ UNCHANGED <<speedtest_vars, inputs, sender_vars, receiver_vars, to_sender, dropped>>

\* A datagram of another host arrives at the Sender.
Net_stray_control ==
    /\ faults < MaxFaults
    /\ Len(to_sender) < MaxChan
    /\ \E d \in stray_control : to_sender' = Append(to_sender, d)
    /\ faults' = faults + 1
    /\ UNCHANGED <<speedtest_vars, inputs, sender_vars, receiver_vars, to_receiver, dropped>>

\* One bit of the checksum or of the payload of a data packet changes on its
\* way to the Receiver.
Net_corrupt_data ==
    /\ faults < MaxFaults
    /\ \E i \in 1..Len(to_receiver) :
       \E k \in 17..Len(to_receiver[i]) :
       \E bit \in 0..7 :
          /\ Len(to_receiver[i]) >= 48
          /\ to_receiver' = [to_receiver EXCEPT ![i][k] = flip(@, bit)]
    /\ faults' = faults + 1
    /\ UNCHANGED <<speedtest_vars, inputs, sender_vars, receiver_vars, to_sender, dropped>>

\* The two programs on a network that delivers in order and in time what they
\* send, and where datagrams of other hosts arrive and bits change.
NextX ==
    \/ Sender_handle_connection
    \/ Sender_check_current_package_status
    \/ Sender_slide
    \/ Receiver_prepare_socket
    \/ Receiver_handle_connection
    \/ Receiver_receive_packet
    \/ Net_stray_data
    \/ Net_stray_control
    \/ Net_corrupt_data

SpecX == InitLogged /\ [][NextX]_vars

\* The programs of SpecX with the timeout of the Sender's recvfrom: a packet
\* can be sent again, and its later copy can arrive changed.
NextXT == NextX \/ Sender_timeout

SpecXT == InitLogged /\ [][NextXT]_vars

\* Scenario B: the channel of scenario A loses the first transmission of the
\* 3rd data packet (index 2) and nothing else.
Net_lose_third ==
    /\ dropped = -1
    /\ \E i \in 1..Len(to_receiver) :
          /\ first_transmission(to_receiver[i]) = 2
          /\ to_receiver' = remove_at(to_receiver, i)
    /\ dropped' = 2
    /\ faults' = faults + 1
    /\ UNCHANGED <<speedtest_vars, inputs, sender_vars, receiver_vars, to_sender>>

NextB ==
    \/ SenderStep
    \/ ReceiverStep
    \/ Net_lose_third

FairSpecB == InitA /\ [][NextB]_vars /\ Fairness

\* A file of three packets that fit in one window: 3 bytes, packet_size 1
\* and window_size 3.
InitW ==
    /\ file = [i \in 1..3 |-> file_byte(i)]
    /\ packet_size = 1
    /\ window_size = 3
    /\ debug = FALSE
    /\ Constructed

\* The two programs of Spec on this file.
SpecW == InitW /\ [][Next]_vars

\* -------------------------------------------------------------- speed test
\* The UDP speed test of "Speedtest/Upload": UDPSpeedTest.send_data on one
\* host and UDPSpeedTest.receive_data on the other, over two datagram channels.

\* Data packets that send_data sends before RUN_DURATION is over, at most.
MaxPackets == 2
\* Timeouts of receive_data's first loop per run, at most.
MaxTimeouts == 2

INT_BYTE_SIZE == 8
DATA_SIZE == 500
PACKET_SIZE == INT_BYTE_SIZE + DATA_SIZE
EMPTY_PACKET == [i \in 1..PACKET_SIZE |-> 0]
CONFIRMATION_PACKET == <<1>>

\* "teste de rede 2022".encode("ascii")
byte_string ==
    <<116, 101, 115, 116, 101, 32, 100, 101, 32, 114, 101, 100, 101, 32, 50,
      48, 50, 50>>

\* SpeedTest.data: byte_string repeated and cut at 500 bytes.
self_data == [i \in 1..500 |-> byte_string[((i - 1) % Len(byte_string)) + 1]]

\* A Python int below 2^64 is three limbs here, most significant first: the
\* bits 48..63, 24..47 and 0..23.
wide(n) == <<0, n \div 16777216, n % 16777216>>

\* int.from_bytes(b, "big", signed=False) of 8 bytes.
wide_from_bytes(b) ==
    <<b[1] * 256 + b[2],
      b[3] * 65536 + b[4] * 256 + b[5],
      b[6] * 65536 + b[7] * 256 + b[8]>>

\* w.to_bytes(8, "big", signed=False).
wide_to_bytes(w) ==
    <<w[1] \div 256, w[1] % 256,
      w[2] \div 65536, (w[2] \div 256) % 256, w[2] % 256,
      w[3] \div 65536, (w[3] \div 256) % 256, w[3] % 256>>

\* x + y
wide_add(x, y) ==
    <<x[1] + y[1] + ((x[2] + y[2] + ((x[3] + y[3]) \div 16777216)) \div 16777216),
      (x[2] + y[2] + ((x[3] + y[3]) \div 16777216)) % 16777216,
      (x[3] + y[3]) % 16777216>>

\* x < y
wide_less(x, y) ==
    \/ x[1] < y[1]
    \/ x[1] = y[1] /\ x[2] < y[2]
    \/ x[1] = y[1] /\ x[2] = y[2] /\ x[3] < y[3]

\* x - y, for y <= x
wide_sub(x, y) ==
    <<x[1] - y[1] - (IF x[2] - y[2] - (IF x[3] < y[3] THEN 1 ELSE 0) < 0 THEN 1 ELSE 0),
      (x[2] - y[2] - (IF x[3] < y[3] THEN 1 ELSE 0)) % 16777216,
      (x[3] - y[3]) % 16777216>>

\* abs(x - y)
wide_abs_diff(x, y) == IF wide_less(x, y) THEN wide_sub(y, x) ELSE wide_sub(x, y)

encode_data_packet(position) == wide_to_bytes(wide(position)) \o self_data

decode_data_packet(packet) ==
    [position |-> wide_from_bytes(Slice(packet, 0, INT_BYTE_SIZE)),
     data |-> SliceFrom(packet, INT_BYTE_SIZE)]

encode_stats_packet(received_data_size, packets_lost) ==
    wide_to_bytes(received_data_size) \o wide_to_bytes(packets_lost)

decode_stats_packet(stats_packet) ==
    [bytes_transmitted |-> wide_from_bytes(Slice(stats_packet, 0, INT_BYTE_SIZE)),
     lost_packets |-> wide_from_bytes(SliceFrom(stats_packet, INT_BYTE_SIZE))]

\* One sock.recv(size - len(message)) of SpeedTest.recvall: the datagram at
\* the head of the queue, cut at the bytes recvall still waits for.
recvall(message, datagram, size) ==
    message \o Slice(datagram, 0, size - Len(message))

\* The sending host's socket takes datagrams from bind() until the process
\* ends.
upload_bound == u_pc \in {"wait", "send", "stats", "recvall", "return"}

\* execute_role of the sender: connection.bind(listen_address).
Upload_bind ==
    /\ u_pc = "init"
    /\ u_pc' = "wait"
    /\ UNCHANGED <<file_share_vars, faults, u_current_packet, u_bytes_transmitted,
                   u_lost_packets, download_vars, to_upload, to_download>>

\* send_data: the recvfrom that waits for the receiver to be ready.
Upload_wait ==
    /\ u_pc = "wait"
    /\ to_upload # <<>>
    /\ to_upload' = Tail(to_upload)
    /\ u_pc' = "send"
    /\ UNCHANGED <<file_share_vars, faults, u_current_packet, u_bytes_transmitted,
                   u_lost_packets, download_vars, to_download>>

\* send_data: one turn of the loop that sends data for RUN_DURATION seconds.
Upload_send_data ==
    /\ u_pc = "send"
    /\ u_current_packet < MaxPackets
    /\ Len(to_download) < MaxChan
    /\ to_download' = Append(to_download, encode_data_packet(u_current_packet))
    /\ u_current_packet' = u_current_packet + 1
    /\ UNCHANGED <<file_share_vars, faults, u_pc, u_bytes_transmitted,
                   u_lost_packets, download_vars, to_upload>>

\* send_data: RUN_DURATION is over.
Upload_end_data ==
    /\ u_pc = "send"
    /\ u_current_packet >= 1
    /\ u_pc' = "stats"
    /\ UNCHANGED <<file_share_vars, faults, u_current_packet, u_bytes_transmitted,
                   u_lost_packets, download_vars, to_upload, to_download>>

\* send_data: the sendto(EMPTY_PACKET) of a turn of the stats loop.
Upload_send_empty ==
    /\ u_pc = "stats"
    /\ Len(to_download) < MaxChan
    /\ to_download' = Append(to_download, EMPTY_PACKET)
    /\ u_pc' = "recvall"
    /\ UNCHANGED <<file_share_vars, faults, u_current_packet, u_bytes_transmitted,
                   u_lost_packets, download_vars, to_upload>>

\* send_data: the recvall of a turn of the stats loop gets a datagram; the
\* turn decodes it, confirms it and tests bytes_transmitted == 0. A datagram
\* shorter than the 16 bytes leaves recvall waiting for the rest.
Upload_recv_stats ==
    /\ u_pc = "recvall"
    /\ to_upload # <<>>
    /\ to_upload' = Tail(to_upload)
    /\ Len(to_download) < MaxChan
    /\ \E stats_packet \in {recvall(<<>>, Head(to_upload), INT_BYTE_SIZE * 2)} :
          /\ Len(stats_packet) = INT_BYTE_SIZE * 2
          /\ \E stats \in {decode_stats_packet(stats_packet)} :
                /\ u_bytes_transmitted' = stats.bytes_transmitted
                /\ u_lost_packets' = stats.lost_packets
                /\ to_download' = Append(to_download, CONFIRMATION_PACKET)
                /\ u_pc' = IF stats.bytes_transmitted = <<0, 0, 0>>
                           THEN "stats" ELSE "return"
    /\ UNCHANGED <<file_share_vars, faults, u_current_packet, download_vars>>

\* send_data: the recvall of a turn of the stats loop raises timeout.
Upload_stats_timeout ==
    /\ u_pc = "recvall"
    /\ to_upload = <<>>
    /\ u_pc' = "stats"
    /\ UNCHANGED <<file_share_vars, faults, u_current_packet, u_bytes_transmitted,
                   u_lost_packets, download_vars, to_upload, to_download>>

\* send_data: return Results(bytes_transmitted, lost_packets). Results has
\* three fields, the call raises TypeError, nothing catches it and the
\* process ends, which closes its socket.
Upload_return ==
    /\ u_pc = "return"
    /\ u_pc' = "raised"
    /\ UNCHANGED <<file_share_vars, faults, u_current_packet, u_bytes_transmitted,
                   u_lost_packets, download_vars, to_upload, to_download>>

\* execute_role of the receiver: connection.connect(connect_address).
Download_connect ==
    /\ d_pc = "init"
    /\ d_pc' = "recvall"
    /\ UNCHANGED <<file_share_vars, d_timeouts, faults, upload_vars, d_message, d_pbar,
                   d_received_data_size, d_packets_lost, d_current_packet,
                   d_status, d_error, to_upload, to_download>>

\* receive_data: what one turn of the first loop does with a whole packet.
Download_packet(packet) ==
    IF packet = EMPTY_PACKET
    THEN \* break, then pbar.n = RUN_DURATION: AttributeError if pbar is None
         /\ d_pc' = IF d_pbar = "None" THEN "raised" ELSE "stats"
         /\ UNCHANGED <<d_pbar, d_received_data_size, d_packets_lost,
                        d_current_packet>>
    ELSE /\ d_pc' = "recvall"
         /\ d_pbar' = "tqdm"
         /\ d_received_data_size' = wide_add(d_received_data_size, wide(Len(packet)))
         /\ \E position \in {decode_data_packet(packet).position} :
               IF position # d_current_packet
               THEN /\ d_packets_lost' =
                          wide_add(d_packets_lost,
                                   wide_abs_diff(d_current_packet, position))
                    /\ d_current_packet' = wide_add(position, wide(1))
               ELSE /\ d_current_packet' = wide_add(d_current_packet, wide(1))
                    /\ UNCHANGED d_packets_lost

\* receive_data: the recvall of the first loop gets a datagram. When its
\* PACKET_SIZE bytes are there the turn goes on with the packet.
Download_recv_packet ==
    /\ d_pc = "recvall"
    /\ ~d_error
    /\ to_download # <<>>
    /\ to_download' = Tail(to_download)
    /\ \E message \in {recvall(d_message, Head(to_download), PACKET_SIZE)} :
          IF Len(message) < PACKET_SIZE
          THEN /\ d_message' = message
               /\ UNCHANGED <<d_pc, d_pbar, d_received_data_size, d_packets_lost,
                              d_current_packet>>
          ELSE /\ d_message' = <<>>
               /\ Download_packet(message)
    /\ UNCHANGED <<file_share_vars, d_timeouts, faults, upload_vars, d_status, d_error,
                   to_upload>>

\* receive_data: the recvall of the first loop raises timeout and the handler
\* sends EMPTY_PACKET: ready to receive.
Download_timeout ==
    /\ d_pc = "recvall"
    /\ ~d_error
    /\ to_download = <<>>
    /\ d_timeouts < MaxTimeouts
    /\ d_timeouts' = d_timeouts + 1
    /\ Len(to_upload) < MaxChan
    /\ to_upload' = Append(to_upload, EMPTY_PACKET)
    /\ d_message' = <<>>
    /\ UNCHANGED <<file_share_vars, faults, upload_vars, d_pc, d_pbar,
                   d_received_data_size, d_packets_lost, d_current_packet,
                   d_status, d_error, to_download>>

\* receive_data: the recvall of the first loop raises ConnectionRefusedError:
\* the other user is not there yet.
Download_refused ==
    /\ d_pc = "recvall"
    /\ d_error
    /\ d_error' = FALSE
    /\ d_message' = <<>>
    /\ UNCHANGED <<file_share_vars, d_timeouts, faults, upload_vars, d_pc, d_pbar,
                   d_received_data_size, d_packets_lost, d_current_packet,
                   d_status, to_upload, to_download>>

\* receive_data: the send(stats_packet) of a turn of the second loop.
Download_send_stats ==
    /\ d_pc = "stats"
    /\ Len(to_upload) < MaxChan
    /\ to_upload' = Append(to_upload,
                           encode_stats_packet(d_received_data_size, d_packets_lost))
    /\ d_pc' = "recv"
    /\ UNCHANGED <<file_share_vars, d_timeouts, faults, upload_vars, d_message, d_pbar,
                   d_received_data_size, d_packets_lost, d_current_packet,
                   d_status, d_error, to_download>>

\* receive_data: the recv(DATA_SIZE) of a turn of the second loop gets a
\* datagram; the loop ends if it is CONFIRMATION_PACKET.
Download_recv_status ==
    /\ d_pc = "recv"
    /\ ~d_error
    /\ to_download # <<>>
    /\ to_download' = Tail(to_download)
    /\ d_status' = Slice(Head(to_download), 0, DATA_SIZE)
    /\ d_pc' = IF d_status' = CONFIRMATION_PACKET THEN "return" ELSE "stats"
    /\ UNCHANGED <<file_share_vars, d_timeouts, faults, upload_vars, d_message, d_pbar,
                   d_received_data_size, d_packets_lost, d_current_packet,
                   d_error, to_upload>>

\* receive_data: the recv of a turn of the second loop raises timeout.
Download_stats_timeout ==
    /\ d_pc = "recv"
    /\ ~d_error
    /\ to_download = <<>>
    /\ d_pc' = "stats"
    /\ UNCHANGED <<file_share_vars, d_timeouts, faults, upload_vars, d_message, d_pbar,
                   d_received_data_size, d_packets_lost, d_current_packet,
                   d_status, d_error, to_upload, to_download>>

\* receive_data: the recv of a turn of the second loop raises
\* ConnectionRefusedError, which ends the loop.
Download_stats_refused ==
    /\ d_pc = "recv"
    /\ d_error
    /\ d_error' = FALSE
    /\ d_pc' = "return"
    /\ UNCHANGED <<file_share_vars, d_timeouts, faults, upload_vars, d_message, d_pbar,
                   d_received_data_size, d_packets_lost, d_current_packet,
                   d_status, to_upload, to_download>>

\* receive_data: return Results(received_data_size, packets_lost), which
\* raises TypeError as in send_data.
Download_return ==
    /\ d_pc = "return"
    /\ d_pc' = "raised"
    /\ UNCHANGED <<file_share_vars, d_timeouts, faults, upload_vars, d_message, d_pbar,
                   d_received_data_size, d_packets_lost, d_current_packet,
                   d_status, d_error, to_upload, to_download>>

\* A datagram reaches the sending host while no socket is bound to the port:
\* the host answers with ICMP port unreachable, which the receiving host's
\* connected socket reports as ConnectionRefusedError at its next recv.
Net_unreachable ==
    /\ ~upload_bound
    /\ to_upload # <<>>
    /\ to_upload' = Tail(to_upload)
    /\ d_error' = TRUE
    /\ UNCHANGED <<file_share_vars, d_timeouts, faults, upload_vars, d_pc, d_message, d_pbar,
                   d_received_data_size, d_packets_lost, d_current_packet,
                   d_status, to_download>>

\* A datagram reaches the receiving host after its process ended: nobody reads
\* it, and the sending socket, which is not connected, is told nothing.
Net_closed_download ==
    /\ d_pc = "raised"
    /\ to_download # <<>>
    /\ to_download' = Tail(to_download)
    /\ UNCHANGED <<file_share_vars, faults, upload_vars, download_vars, to_upload>>

\* The channel loses a datagram on its way to the receiving host.
Net_lose_download ==
    /\ faults < MaxFaults
    /\ \E i \in 1..Len(to_download) : to_download' = remove_at(to_download, i)
    /\ faults' = faults + 1
    /\ UNCHANGED <<file_share_vars, upload_vars, download_vars, to_upload>>

\* The channel loses a datagram on its way to the sending host.
Net_lose_upload ==
    /\ faults < MaxFaults
    /\ \E i \in 1..Len(to_upload) : to_upload' = remove_at(to_upload, i)
    /\ faults' = faults + 1
    /\ UNCHANGED <<file_share_vars, upload_vars, download_vars, to_download>>

UploadStep ==
    \/ Upload_bind
    \/ Upload_wait
    \/ Upload_send_data
    \/ Upload_end_data
    \/ Upload_send_empty
    \/ Upload_recv_stats
    \/ Upload_stats_timeout
    \/ Upload_return

DownloadStep ==
    \/ Download_connect
    \/ Download_recv_packet
    \/ Download_timeout
    \/ Download_refused
    \/ Download_send_stats
    \/ Download_recv_status
    \/ Download_stats_timeout
    \/ Download_stats_refused
    \/ Download_return

\* The state after the two UDPSpeedTest(...) were constructed.
InitS ==
    /\ file = <<>>
    /\ packet_size = 1
    /\ window_size = 1
    /\ debug = FALSE
    /\ Constructed

\* The two sides of the speed test over channels that keep the order of the
\* datagrams and lose at most MaxFaults of them.
NextS ==
    \/ UploadStep
    \/ DownloadStep
    \/ Net_unreachable
    \/ Net_closed_download
    \/ Net_lose_download
    \/ Net_lose_upload

\* Each side goes on running, and a host deals with a datagram for a port
\* that no socket is bound to. Losses are the channel's choice, never forced.
FairnessS ==
    /\ WF_vars(UploadStep)
    /\ WF_vars(DownloadStep)
    /\ WF_vars(Net_unreachable)
    /\ WF_vars(Net_closed_download)

FairSpecS == InitS /\ [][NextS]_vars /\ FairnessS

\* One run of the repository: the user starts the file share (file_share.py)
\* or the speed test (the Speedtest programs), never both; the programs of
\* the other one are not running.
InitOne ==
    /\ file = [i \in 1..3 |-> file_byte(i)]
    /\ packet_size = 1
    /\ window_size = 3
    /\ debug = FALSE
    /\ file_share_fields
    /\ speedtest_fields
    /\ \/ s_pc = "start" /\ r_pc = "init" /\ u_pc = "off" /\ d_pc = "off"
       \/ s_pc = "off" /\ r_pc = "off" /\ u_pc = "init" /\ d_pc = "init"

NextOne == Next \/ NextS

SpecOne == InitOne /\ [][NextOne]_vars

\* The end-of-stream sentinel of a file share session arrives at the
\* Receiver: send_packet of sender.py sends data packets only, so the sentinel
\* comes from a sender that ends its stream with one.
Net_stray_sentinel ==
    /\ faults < MaxFaults
    /\ Len(to_receiver) < MaxChan
    /\ to_receiver' = Append(to_receiver, [i \in 1..(48 + packet_size) |-> 0])
    /\ faults' = faults + 1
    /\ UNCHANGED <<speedtest_vars, inputs, sender_vars, receiver_vars, to_sender, dropped>>

NextEnd == NextOne \/ Net_stray_sentinel

\* One run of the repository where a sentinel can reach the Receiver.
SpecEnd == InitOne /\ [][NextEnd]_vars

\* ----------------------------------------------------------------- claims
\* The payload of the packet with sequence index j: the j-th chunk of the file.
chunk(j) == Slice(file, j * packet_size, (j + 1) * packet_size)

\* The control datagram d is an ACK for index i.
is_ack(d, i) == d = control_packet(i, ACK)

\* C1: whenever the Receiver has left its loop and written the output, the
\* joined buffer, which is what it wrote, is the Sender's file; in every other
\* run (interrupt, error, still receiving) nothing was written and the
\* Receiver does not report the transfer.
C1_InOrderDelivery ==
    /\ r_pc = "done" => /\ output # <<>>
                        /\ output[1].bytes = file
                        /\ join(buffer) = file
    /\ r_pc # "done" => output = <<>>

\* C1 witness: a file of at least two packets was written after a channel fault.
C1_Witness ==
    /\ r_pc = "done"
    /\ Len(buffer) >= 2
    /\ faults > 0

\* C5: current_package of the Receiver is the number of chunks in its buffer,
\* and the j-th chunk is the payload of the packet with sequence index j.
C5_NoGaps ==
    /\ r_current_package = Len(buffer)
    /\ \A j \in 1..Len(buffer) : buffer[j] = chunk(j - 1)

\* C5 witness: with no channel fault, ACK(1) is followed by ACK(0), which only
\* the loop that re-sends ACKs for a packet below current_package produces.
C5_Witness ==
    /\ faults = 0
    /\ Len(buffer) >= 2
    /\ \E i \in 1..(Len(to_sender) - 1) :
          is_ack(to_sender[i], 1) /\ is_ack(to_sender[i + 1], 0)

\* The window elements that are AwaitingAck.
awaiting_in_window == {i \in 1..Len(window) : is_awaiting_ack[window[i]]}

\* C6, as claimed: at every point, also between the append and the popleft of
\* check_current_package_status, the window holds at most window_size packets
\* and at most window_size of them are AwaitingAck.
C6_WindowBound ==
    /\ Len(window) <= window_size
    /\ Cardinality(awaiting_in_window) <= window_size

\* C7: current_package of the Sender changes only by +1, and only in the step
\* that ends the processing of a control packet whose status is ACK and whose
\* index is current_package.
C7_BaseIndexMonotone ==
    [][s_current_package' # s_current_package =>
          /\ s_current_package' = s_current_package + 1
          /\ s_pc = "slide"
          /\ s_message = control_packet(s_current_package, ACK)]_vars

\* C7 witness: the base index advanced twice and a fault happened.
C7_Witness ==
    /\ s_current_package >= 2
    /\ faults > 0

\* The head of the channel is a data packet the Receiver accepted before.
accepted_before(d) ==
    /\ Len(d) > 48
    /\ index_of(d) < r_current_package
    /\ index_of(d) < n_packets(file, packet_size)
    /\ d = create_packet(index_of(d), chunk(index_of(d)))

\* C8: a loop turn of the Receiver on a data packet it accepted before leaves
\* buffer, buffer_size and current_package as they were.
C8_DuplicateIdempotent ==
    [][(/\ r_pc = "loop"
        /\ to_receiver # <<>>
        /\ accepted_before(Head(to_receiver))
        /\ to_receiver' = Tail(to_receiver))
       => UNCHANGED <<buffer, buffer_size, r_current_package>>]_vars

\* C8 witness: with no channel fault the Sender holds two ACK(0) in a row while
\* the Receiver still has one chunk: packet 0 came again and was not appended.
C8_Witness ==
    /\ faults = 0
    /\ r_current_package = 1
    /\ buffer_size = Len(chunk(0))
    /\ Len(to_sender) >= 2
    /\ is_ack(to_sender[1], 0)
    /\ is_ack(to_sender[2], 0)

\* C9: the output is written only with buffer_size at or above the announced
\* file size, and a Receiver that ended otherwise has written nothing.
C9_NoEarlyOutput ==
    /\ output # <<>> => /\ r_pc = "done"
                        /\ buffer_size >= r_file_size
                        /\ r_file_size = Len(file)
    /\ r_pc \in {"interrupted", "raised", "failed"} => output = <<>>

\* C9 witness: the Receiver was interrupted in its loop with chunks buffered.
C9_Witness ==
    /\ r_pc = "interrupted"
    /\ buffer # <<>>
    /\ buffer_size < r_file_size

\* The packet whose first transmission was dropped was transmitted again.
retransmitted == dropped # -1 /\ sent[dropped] = 2

\* C2: when the channel drops the first transmission of data packet k and
\* nothing else, the Receiver does not get past k while k has been sent only
\* that once, and the Sender eventually transmits k again.
C2_GoBackNRecovery ==
    /\ [](dropped # -1 /\ sent[dropped] < 2 => r_current_package <= dropped)
    /\ (dropped # -1 /\ faults = 1) ~> (retransmitted \/ faults > 1)

\* The Receiver got the file size and name of the Sender and is in its loop.
handshake_delivered ==
    /\ r_pc = "loop"
    /\ r_file_size = Len(file)
    /\ r_file_name = file_name

\* C3: once the handshake was delivered, and with finitely many datagrams
\* lost, the Receiver eventually has all the packets and completes.
C3_EventualProgress ==
    handshake_delivered ~>
        (r_pc = "done" /\ r_current_package = n_packets(file, packet_size))

\* C4: whenever the Receiver has completed the transfer, the main loop of the
\* Sender eventually ends.
C4_SenderTerminates == (r_pc = "done") ~> (s_pc = "done")

\* The end-of-stream sentinel of a session with this packet_size: a datagram
\* of full wire size whose bytes are all zero.
sentinel == [i \in 1..(48 + packet_size) |-> 0]

\* The data packets the Sender transmitted, and those of them that are the
\* sentinel. send_packet is the only sendto of the Sender after the file info.
data_packets_sent == {p \in DOMAIN sent : sent[p] >= 1}
sentinels_sent == {p \in data_packets_sent : file_data[p + 1] = sentinel}

C11_ScenarioB ==
    (dropped = 2) ~> (/\ DOMAIN sent = 0..4
                      /\ sent[2] = 2 /\ sent[3] = 2 /\ sent[4] = 2
                      /\ r_pc = "done"
                      /\ buffer_size = 2500
                      /\ join(buffer) = file)

\* The Receiver takes the head of its channel in this step of its loop.
receives_head ==
    /\ r_pc = "loop"
    /\ to_receiver # <<>>
    /\ to_receiver' = Tail(to_receiver)

\* C12: a loop turn of the Receiver on create_packet(i, P), for its
\* current_package i and any payload P of up to packet_size bytes, decodes
\* index i, length Len(P), the checksum of P and payload P, passes
\* check_package, and appends P to the buffer.
C12_ChecksumRoundTrip ==
    [][(/\ receives_head
        /\ Len(Head(to_receiver)) >= 48
        /\ Len(payload_of(Head(to_receiver))) <= packet_size
        /\ Head(to_receiver)
             = create_packet(r_current_package, payload_of(Head(to_receiver))))
       => LET P == payload_of(Head(to_receiver))
              packet == receive_packet(Head(to_receiver))
          IN /\ packet = [none |-> FALSE,
                          packet_index |-> r_current_package,
                          packet_data_size |-> Len(P),
                          packet_checksum |-> checksum(P),
                          packet_data |-> P]
             /\ check_package(packet, r_current_package).ok
             /\ buffer' = Append(buffer, P)
             /\ buffer_size' = buffer_size + Len(P)
             /\ r_current_package' = r_current_package + 1]_vars

\* C12 witness: the buffer holds a payload with a byte above 127 that is no
\* chunk of the file: a packet of another host went the round trip.
C12_Witness ==
    /\ faults = 1
    /\ \E j \in 1..Len(buffer) :
          /\ buffer[j] # chunk(j - 1)
          /\ 200 \in Range(buffer[j])

\* The positions where two datagrams of the same length differ.
differences(d, e) == {k \in 1..Len(d) : d[k] # e[k]}

\* The datagram d is the Sender's packet current_package of the Receiver with
\* one bit of its checksum field or of its payload changed.
corrupted_current(d) ==
    /\ r_current_package < Len(file_data)
    /\ LET good == file_data[r_current_package + 1] IN
       /\ Len(d) = Len(good)
       /\ \E k \in 17..Len(d) :
             /\ differences(d, good) = {k}
             /\ \E bit \in 0..7 : d[k] = flip(good[k], bit)

\* The Receiver answers this step with one NACK for its current_package and
\* keeps buffer, buffer_size and current_package.
rejects_with_nack ==
    /\ to_sender' = Append(to_sender, control_packet(r_current_package, NACK))
    /\ UNCHANGED <<buffer, buffer_size, r_current_package>>

\* C13: a loop turn of the Receiver on its current packet with one bit of the
\* payload or of the checksum field changed answers NACK(current_package),
\* buffers nothing and leaves the Receiver in its loop.
C13_CorruptionDetected ==
    [][receives_head /\ corrupted_current(Head(to_receiver))
       => rejects_with_nack /\ r_pc' = "loop"]_vars

\* C14: a loop turn of the Receiver on a datagram shorter than the 48 bytes
\* of a data header answers NACK(current_package) and changes neither buffer,
\* buffer_size nor current_package, whatever its bytes.
C14_MalformedDiscarded ==
    [][(/\ receives_head
        /\ Head(to_receiver) # <<>>
        /\ Len(Head(to_receiver)) < 48)
       => rejects_with_nack]_vars

\* The data packet d does not validate for the Receiver: its index is not
\* current_package, or its size field or its checksum field is wrong.
does_not_validate(d) ==
    \/ index_of(d) # r_current_package
    \/ from_bytes(Slice(d, 8, 16)) # Len(payload_of(d))
    \/ Slice(d, 16, 48) # checksum(payload_of(d))

\* C20, as claimed: a loop turn of the Receiver on a data packet that does
\* not validate answers NACK(current_package) and changes neither buffer,
\* buffer_size nor current_package.
C20_RejectRule ==
    [][(/\ receives_head
        /\ Len(Head(to_receiver)) >= 48
        /\ Len(Head(to_receiver)) <= 48 + packet_size
        /\ does_not_validate(Head(to_receiver)))
       => rejects_with_nack]_vars

\* The file-info datagram of the Sender: [file_size][file_name].
file_info == to_bytes(Len(file)) \o file_name

\* C15: while the Sender waits for the readiness datagram, a step in which it
\* does not read an empty datagram leaves its state as it was and adds no
\* datagram of the Sender to the channel (what the channel gains comes from
\* another host); the step in which it reads the empty datagram sends exactly
\* one [file_size][file_name] datagram and, after it, nothing but the data
\* packets of the window, in order.
C15_HandshakeOrdering ==
    [][s_pc = "start" =>
         IF to_sender # <<>> /\ Head(to_sender) = <<>> /\ to_sender' = Tail(to_sender)
         THEN \E n \in 0..Len(window') :
                 to_receiver' = to_receiver \o <<file_info>>
                                \o [j \in 1..n |-> file_data'[window'[j] + 1]]
         ELSE /\ UNCHANGED sender_vars
              /\ Len(to_receiver') > Len(to_receiver) => faults' = faults + 1
              /\ Len(to_receiver') <= Len(to_receiver) + 1]_vars

\* C15 witness: the Sender read a non-empty first datagram (the Receiver has
\* not started, so it came from another host) and still waits.
C15_Witness ==
    /\ s_pc = "start"
    /\ r_pc = "init"
    /\ faults = 1
    /\ to_sender = <<>>
    /\ to_receiver = <<>>

\* C16: once send_data has stopped sending data, over channels that lose at
\* most MaxFaults datagrams, both stats loops are eventually left, and
\* receive_data leaves its loop on the confirmation value.
C16_StatsExchangeTerminates ==
    (u_pc = "stats")
        ~> (/\ u_pc \in {"return", "raised"}
            /\ d_pc \in {"return", "raised"}
            /\ d_status = CONFIRMATION_PACKET)

\* The Sender takes the control datagram at the head of to_sender.
processes_control ==
    /\ s_pc = "recv"
    /\ to_sender # <<>>
    /\ to_sender' = Tail(to_sender)
    /\ faults' = faults

\* The window that go-back-N makes at current_package: the packets
\* current_package .. min(current_package + window_size, N) - 1, in order.
window_from(current_package) ==
    [k \in 1..(Min(current_package + window_size, Len(file_data)) - current_package) |->
        current_package + k - 1]

\* The data packets of the window w, in window order.
contents(w) == [k \in 1..Len(w) |-> file_data[w[k] + 1]]

\* C17: whenever the Sender processes a control packet whose status is NACK
\* or whose index differs from current_package, and the channel has room for
\* a window, the window afterwards is the one that starts at current_package,
\* all of it is transmitted in the pass that follows, and the call returns
\* False: one failure.
C17_NegativeFeedback ==
    [][(/\ processes_control
        /\ \E i \in 0..(Len(file_data) + 1), status \in {ACK, NACK} :
              /\ Head(to_sender) = control_packet(i, status)
              /\ status = NACK \/ i # s_current_package
        /\ Len(to_receiver) + window_size <= MaxChan)
       => (/\ window' = window_from(s_current_package)
           /\ to_receiver' = to_receiver \o contents(window')
           /\ s_status' = FALSE)]_vars

\* C18: whenever the Sender's recvfrom times out and the channel has room
\* for a window, the window afterwards is current_package ..
\* min(current_package + window_size, N) - 1 in increasing order, and the pass
\* that follows transmits every one of these packets, which it does for the
\* packets that are not awaiting an acknowledgement, and for no other.
C18_TimeoutResetsWindow ==
    [][((Sender_timeout \/ Sender_timeout_early)
        /\ Len(to_receiver) + window_size <= MaxChan)
       => (/\ s_pc' = "recv"
           /\ window' = window_from(s_current_package)
           /\ to_receiver' = to_receiver \o contents(window')
           /\ \A k \in 1..Len(window') : is_awaiting_ack'[window'[k]])]_vars

\* C19: whenever the Sender processes ACK(current_package), the packet with
\* index current_package + window_size joins the tail of the window if it
\* exists and is not in the window already, the packet that then leaves the
\* window is the one with index current_package, current_package advances
\* by one and the call returns True: no failure.
C19_WindowSlide ==
    [][/\ (processes_control
           /\ Head(to_sender) = control_packet(s_current_package, ACK))
          => (/\ s_pc' = "slide"
              /\ window' = IF /\ s_current_package + window_size < Len(file_data)
                              /\ s_current_package + window_size \notin Range(window)
                           THEN Append(window, s_current_package + window_size)
                           ELSE window)
       /\ Sender_slide
          => (/\ Head(window) = s_current_package
              /\ window' = Tail(window)
              /\ s_current_package' = s_current_package + 1
              /\ s_status' = TRUE)]_vars

\* The datagram d, read whole, is a data packet for the Receiver's
\* current_package with the length it declares and the checksum of its payload.
validates(d) ==
    /\ Len(d) <= 48 + packet_size
    /\ from_bytes(Slice(d, 0, 8)) = r_current_package
    /\ from_bytes(Slice(d, 8, 16)) = Len(SliceFrom(d, 48))
    /\ Slice(d, 16, 48) = checksum(SliceFrom(d, 48))

\* C21: a loop turn of the Receiver on a data packet whose index is
\* current_package, whose declared length is the length of its payload and
\* whose checksum matches sends one ACK with that index and nothing else,
\* appends the payload to the buffer, adds its length to buffer_size and
\* steps current_package by one.
C21_AcceptRule ==
    [][(receives_head /\ Len(Head(to_receiver)) >= 48 /\ validates(Head(to_receiver)))
       => (/\ to_sender' = Append(to_sender, to_bytes(r_current_package) \o ACK)
           /\ buffer' = Append(buffer, SliceFrom(Head(to_receiver), 48))
           /\ Len(buffer') = Len(buffer) + 1
           /\ buffer_size' = buffer_size + Len(SliceFrom(Head(to_receiver), 48))
           /\ r_current_package' = r_current_package + 1)]_vars

\* C21 witness: two packets were accepted in a row and the ACK of the second
\* is on its way behind the ACK of the first.
C21_Witness ==
    /\ r_current_package = 2
    /\ Len(buffer) = 2
    /\ Len(to_sender) >= 2
    /\ to_sender[Len(to_sender) - 1] = to_bytes(0) \o ACK
    /\ to_sender[Len(to_sender)] = to_bytes(1) \o ACK

\* C22: whenever the Sender waits for a control packet with a window that is
\* not empty, the first packet of the window is current_package and no
\* packet of the window has a lower index.
C22_BaseIndexAtHead ==
    (s_pc = "recv" /\ window # <<>>)
        => /\ window[1] = s_current_package
           /\ \A k \in 1..Len(window) : window[k] >= s_current_package

\* The indices that check_current_package_status would call resend with in
\* this state: current_package, for a timeout, and the index of the control
\* packet at the head of to_sender when it is above current_package.
resend_indices ==
    {i \in {s_current_package} \cup
           (IF to_sender # <<>> /\ Len(Head(to_sender)) > 8
            THEN {index_of(Head(to_sender))} ELSE {}) :
        s_current_package <= i /\ i < Len(file_data)}

\* C23: whenever the Sender waits for a control packet, resend(i), for every
\* index i from current_package on that it can be called with, leaves a
\* window of exactly the packets i .. min(i + window_size, N) - 1, once each
\* and in increasing order, none of them awaiting an acknowledgement.
C23_ResendRefills ==
    s_pc = "recv" =>
        \A i \in resend_indices :
            LET r == resend(window, is_awaiting_ack, i, Len(file_data), window_size)
            IN /\ ~r.raised
               /\ r.window = [k \in 1..(Min(i + window_size, Len(file_data)) - i) |->
                                 i + k - 1]
               /\ \A k \in 1..Len(r.window) : ~r.aw[r.window[k]]

\* The control packets that this step puts on the way to the Sender.
emitted == SubSeq(to_sender', Len(to_sender) + 1, Len(to_sender'))

\* C24: every ACK(i) that a loop turn of the Receiver emits names a packet i
\* that is in its buffer after the turn, and every NACK it emits carries its
\* current_package, which the turn keeps; in every state current_package of
\* the Sender is at most that of the Receiver, and when the Sender is done
\* the Receiver has accepted all N packets.
C24_ControlMeaning ==
    /\ [][(Receiver_receive_packet \/ Receiver_timeout \/ Receiver_timeout_early)
          => \A k \in 1..Len(emitted) :
                \/ \E i \in 0..(Len(buffer') - 1) :
                      /\ emitted[k] = to_bytes(i) \o ACK
                      /\ i < r_current_package'
                \/ /\ emitted[k] = to_bytes(r_current_package) \o NACK
                   /\ r_current_package' = r_current_package]_vars
    /\ [](s_current_package <= r_current_package)
    /\ [](s_pc = "done" => r_current_package = Len(file_data))

\* C24 witness: with no channel fault an ACK(0) is on its way to a Sender
\* that has processed ACK(0) already: the Receiver acknowledged again what it
\* had accepted earlier.
C24_Witness ==
    /\ faults = 0
    /\ s_current_package >= 1
    /\ \E k \in 1..Len(to_sender) : to_sender[k] = to_bytes(0) \o ACK

\* The positions of the window w whose packet is not awaiting under aw, each
\* packet at its first position only: the packets a transmit pass finds
\* pending, a packet that is in the window twice being one object.
pending_positions(w, aw) ==
    {k \in 1..Len(w) : ~aw[w[k]] /\ \A j \in 1..(k - 1) : w[j] # w[k]}

\* The packets at these positions, in window order.
pending(w, aw) ==
    LET K == pending_positions(w, aw) IN
    [j \in 1..Cardinality(K) |->
        w[CHOOSE k \in K : Cardinality({x \in K : x <= k}) = j]]

\* The flags before the transmit pass of this step of the Sender: those that
\* resend left when the step calls it, the ones all False of read_file in
\* the first step, else those of the state.
flags_before_pass ==
    IF s_pc = "start" THEN [p \in 0..(Len(file_data') - 1) |-> FALSE]
    ELSE IF s_pc = "slide" THEN is_awaiting_ack
    ELSE IF to_sender' = to_sender
    THEN resend(window, is_awaiting_ack, s_current_package, Len(file_data),
                window_size).aw
    ELSE IF /\ Len(Head(to_sender)) > 8
            /\ index_of(Head(to_sender)) > s_current_package
    THEN resend(window, is_awaiting_ack, index_of(Head(to_sender)),
                Len(file_data), window_size).aw
    ELSE is_awaiting_ack

\* C25: the transmit pass of a step of the Sender sends exactly the packets of
\* the window that are not awaiting, in window order and by strictly
\* increasing index, as far as the channel takes them: the first send that
\* fails ends the pass; every packet sent is awaiting afterwards and no other
\* flag changes.
C25_TransmitOrder ==
    [][((Sender_handle_connection \/ Sender_check_current_package_status
            \/ Sender_slide \/ Sender_timeout \/ Sender_timeout_early)
        /\ s_pc' = "recv")
       => LET P == pending(window', flags_before_pass)
              n == Min(Len(P), MaxChan - Len(to_receiver \o
                                  (IF s_pc = "start" THEN <<file_info>> ELSE <<>>)))
          IN /\ to_receiver' = to_receiver
                                 \o (IF s_pc = "start" THEN <<file_info>> ELSE <<>>)
                                 \o [j \in 1..n |-> file_data'[P[j] + 1]]
             /\ \A j \in 1..(n - 1) : P[j] < P[j + 1]
             /\ is_awaiting_ack' =
                   [p \in DOMAIN flags_before_pass |->
                       flags_before_pass[p] \/ \E j \in 1..n : P[j] = p]]_vars

\* The data packets that this step puts on the way to the Receiver, by index.
transmitted_now ==
    {index_of(to_receiver'[k]) :
        k \in {j \in (Len(to_receiver) + 1)..Len(to_receiver') :
                  Len(to_receiver'[j]) >= 48}}

\* The packet p is in the window and not awaiting while the Sender waits for
\* a control packet: its send failed, or the pass ended before it.
send_failed(p) ==
    /\ s_pc = "recv"
    /\ p \in Range(window)
    /\ p \in DOMAIN is_awaiting_ack
    /\ ~is_awaiting_ack[p]

\* What a step of the Sender does with the packets that its pass leaves
\* unsent: it marks awaiting only packets that the pass put on the channel,
\* and a packet of the window that the pass found pending and did not send
\* stays pending and in the window.
marks_only_sent ==
    [][((Sender_handle_connection \/ Sender_check_current_package_status
            \/ Sender_slide \/ Sender_timeout \/ Sender_timeout_early)
        /\ s_pc' = "recv")
       => /\ \A p \in DOMAIN is_awaiting_ack' :
                (is_awaiting_ack'[p] /\ ~flags_before_pass[p])
                    => p \in transmitted_now
          /\ \A k \in 1..Len(window') :
                (~flags_before_pass[window'[k]] /\ window'[k] \notin transmitted_now)
                    => ~is_awaiting_ack'[window'[k]]]_vars

\* The packet p was sent again: it is awaiting once more.
sent_again(p) ==
    /\ p \in DOMAIN is_awaiting_ack
    /\ is_awaiting_ack[p]

\* C26: a step of the Sender marks awaiting only the packets it sent
\* and leaves the others pending in the window, and every packet whose send
\* failed is sent in a later pass unless the Sender moves past it first, on an
\* ACK for one of its earlier transmissions.
C26_FailedSendRetried ==
    /\ marks_only_sent
    /\ \A p \in 0..(MaxFileSize - 1) :
          send_failed(p) ~> (sent_again(p) \/ s_current_package > p)

\* C27: a timeout of the receiver's recvfrom is not a failure. The Receiver
\* of the file share stays in its loop, keeps buffer, buffer_size and
\* current_package, and sends NACK(current_package) and nothing else;
\* receive_data of the speed test stays in its first loop, keeps
\* received_data_size, packets_lost and current_packet, and sends EMPTY_PACKET
\* and nothing else.
C27_ReceiverTimeout ==
    /\ [][(Receiver_timeout \/ Receiver_timeout_early)
          => /\ r_pc' = "loop"
             /\ UNCHANGED <<buffer, buffer_size, r_current_package, output>>
             /\ to_sender' = Append(to_sender, to_bytes(r_current_package) \o NACK)]_vars
    /\ [][Download_timeout
          => /\ d_pc' = "recvall"
             /\ UNCHANGED <<d_received_data_size, d_packets_lost, d_current_packet>>
             /\ to_upload' = Append(to_upload, EMPTY_PACKET)
             /\ to_upload'[Len(to_upload')] = [i \in 1..PACKET_SIZE |-> 0]]_vars

\* C27 witness, speed test: receive_data has received a data packet, its
\* recvall timed out afterwards, and it waits in its first loop with the
\* EMPTY_PACKET of the handler on its way.
C27_Witness ==
    /\ d_pc = "recvall"
    /\ d_timeouts >= 1
    /\ d_pbar # "None"
    /\ to_upload # <<>>
    /\ to_upload[Len(to_upload)] = EMPTY_PACKET

\* The Receiver of the file share reads the sentinel in this step of its loop.
receiver_gets_sentinel ==
    /\ receives_head
    /\ Head(to_receiver) = [i \in 1..(48 + packet_size) |-> 0]

\* receive_data of the speed test reads the sentinel in this step of its
\* first loop.
download_gets_sentinel ==
    /\ Download_recv_packet
    /\ Head(to_download) = EMPTY_PACKET

\* The sentinel ends the loop of receive_data and adds nothing to its counts.
sentinel_ends_receive_data ==
    [][download_gets_sentinel
       => /\ d_pc' # "recvall"
          /\ UNCHANGED <<d_received_data_size, d_packets_lost, d_current_packet>>]_vars

\* C28: the step in which a receiver reads the sentinel ends its receive
\* loop, whatever it has received so far, and leaves its count of bytes as it
\* was: the Receiver of the file share leaves its while loop with buffer and
\* buffer_size unchanged, receive_data of the speed test leaves its first loop
\* with received_data_size unchanged.
C28_SentinelEndsReception ==
    /\ [][receiver_gets_sentinel
          => /\ r_pc' # "loop"
             /\ UNCHANGED <<buffer, buffer_size>>]_vars
    /\ sentinel_ends_receive_data

\* The datagrams that this step puts on the way to the Receiver.
sender_emitted == SubSeq(to_receiver', Len(to_receiver) + 1, Len(to_receiver'))

\* C29: the step that ends the Sender's session sends the end-of-stream
\* sentinel, and a step sends the sentinel only when the window is empty
\* afterwards; send_data of the speed test sends EMPTY_PACKET only once its
\* loop of data packets is over, and returns only from a turn of the loop
\* that starts by sending it.
C29_SenderClose ==
    /\ [][(s_pc # "done" /\ s_pc' = "done")
          => \E k \in 1..Len(sender_emitted) :
                sender_emitted[k] = [i \in 1..(48 + packet_size) |-> 0]]_vars
    /\ [][(\E k \in 1..Len(sender_emitted) :
              sender_emitted[k] = [i \in 1..(48 + packet_size) |-> 0])
          => window' = <<>>]_vars
    /\ [][Upload_send_empty => u_pc = "stats"]_vars
    /\ [][(u_pc # "return" /\ u_pc' = "return") => u_pc = "recvall"]_vars

\* The Receiver reads, in this step of its loop, a data packet whose index is
\* below its current_package.
receives_stale ==
    /\ Receiver_receive_packet
    /\ Len(Head(to_receiver)) >= 48
    /\ from_bytes(Slice(Head(to_receiver), 0, 8)) < r_current_package

\* C30: a loop turn of the Receiver on a data packet with an index p below
\* its current_package e sends ACK(p), ACK(p + 1), ..., ACK(e - 1) in this
\* order and nothing else, leaves current_package at e and the Receiver in
\* its loop, and leaves buffer and buffer_size as they were.
C30_StaleReAck ==
    [][receives_stale
       => LET p == from_bytes(Slice(Head(to_receiver), 0, 8))
              e == r_current_package
          IN /\ to_sender' = to_sender \o [k \in 1..(e - p) |-> to_bytes(p + k - 1) \o ACK]
             /\ r_current_package' = e
             /\ r_pc' = "loop"
             /\ UNCHANGED <<buffer, buffer_size>>]_vars

\* A datagram of the handshake was lost: the Receiver has sent its readiness
\* datagram and waits in select, and either the Sender still waits for the
\* readiness datagram with nothing on its way, or the Sender has sent the file
\* info and it is not on its way any more.
handshake_lost ==
    /\ r_pc = "select"
    /\ \/ s_pc = "start" /\ to_sender = <<>>
       \/ s_pc # "start" /\ \A k \in 1..Len(to_receiver) : to_receiver[k] # file_info

\* The Receiver has the file size and name of the Sender.
file_info_obtained ==
    /\ r_pc \in {"loop", "done"}
    /\ r_file_size = Len(file)
    /\ r_file_name = file_name

\* C31: after the loss of the readiness datagram or of the file info, with
\* finitely many losses, the Receiver eventually has the file info of the
\* Sender, and eventually completes the transfer with the file written.
C31_HandshakeLossRecovered ==
    /\ handshake_lost ~> file_info_obtained
    /\ handshake_lost ~> (r_pc = "done" /\ output # <<>> /\ output[1].bytes = file)

\* C32: the datagram from which Receiver.handle_connection takes the file
\* size and the file name is the file info of the Sender, never a data
\* packet, and the size and name the Receiver goes on with are the Sender's.
C32_FileInfoOnly ==
    /\ [][(Receiver_handle_connection /\ Head(to_receiver) # <<>>)
          => Head(to_receiver) = file_info]_vars
    /\ [](r_pc \in {"loop", "done"}
             => r_file_size = Len(file) /\ r_file_name = file_name)

\* C33: whenever the Sender has finished an operation (read_file, the slide
\* on an ACK, resend on a timeout or on a control packet with a higher index)
\* its window holds Min(window_size, N - current_package) packets; so the
\* window is empty exactly when current_package is N, and the resend that a
\* timeout or the datagram at the head of the channel can start does not pop
\* from an empty window.
C33_WindowLength ==
    s_pc \in {"recv", "done"}
        => /\ Len(window) = Min(window_size, Len(file_data) - s_current_package)
           /\ (window = <<>>) <=> (s_current_package = Len(file_data))
           /\ s_pc = "recv" =>
                 \A i \in {s_current_package}
                          \cup (IF to_sender # <<>> /\ Len(Head(to_sender)) > 8
                                THEN {index_of(Head(to_sender))} ELSE {}) :
                    ~resend(window, is_awaiting_ack, i, Len(file_data), window_size).raised

\* C33 witness: the Sender has run resend on a control packet with a higher
\* index, which left a later packet at the head of its full window.
C33_Witness ==
    /\ s_pc = "recv"
    /\ Len(window) = window_size
    /\ window_size = 2
    /\ window[1] > s_current_package

\* The datagram at the head of to_sender is empty, or a control packet with
\* an index below current_package, or the NACK for current_package.
stale_or_empty_control ==
    /\ to_sender # <<>>
    /\ \/ Head(to_sender) = <<>>
       \/ \E i \in 0..(s_current_package - 1), status \in {ACK, NACK} :
             Head(to_sender) = to_bytes(i) \o status
       \/ Head(to_sender) = to_bytes(s_current_package) \o NACK

\* C34: when check_current_package_status reads an empty datagram, a control
\* packet with an index below current_package or the NACK for
\* current_package, the window, current_package and the flags are as before
\* and the call returns False (one more failure); a flag changes only for a
\* packet that the transmit pass after the call sends.
C34_StaleControlNoOp ==
    [][(Sender_check_current_package_status /\ stale_or_empty_control)
       => /\ window' = window
          /\ s_current_package' = s_current_package
          /\ s_status' = FALSE
          /\ s_pc' = "recv"
          /\ \A p \in DOMAIN is_awaiting_ack :
                is_awaiting_ack'[p] # is_awaiting_ack[p]
                    => /\ is_awaiting_ack'[p]
                       /\ \E k \in (Len(to_receiver) + 1)..Len(to_receiver') :
                             to_receiver'[k] = file_data[p + 1]]_vars

\* C34 witness: the Sender, past packet 0 and level with the Receiver, has
\* counted a failure since its last slide: the datagram it read held no
\* index above current_package.
C34_Witness ==
    /\ s_pc = "recv"
    /\ ~s_status
    /\ s_current_package >= 1
    /\ s_current_package = r_current_package

\* C35: every packet of the Sender's window has a sequence index from
\* current_package up to N - 1, and every data packet that a step of the
\* Sender transmits has an index in that range: the Sender never transmits a
\* packet it counts as acknowledged.
C35_NoAcknowledgedResent ==
    /\ [](\A k \in 1..Len(window) :
             s_current_package <= window[k] /\ window[k] < Len(file_data))
    /\ [][(Sender_check_current_package_status \/ Sender_slide
              \/ Sender_timeout \/ Sender_timeout_early)
          => \A k \in (Len(to_receiver) + 1)..Len(to_receiver') :
                \E p \in s_current_package'..(Len(file_data) - 1) :
                   to_receiver'[k] = file_data[p + 1]]_vars

\* C35 witness: the Sender, past packet 0, has transmitted packet 1 again:
\* two copies of it are on their way, and its window starts at packet 1.
C35_Witness ==
    /\ s_pc = "recv"
    /\ s_current_package = 1
    /\ window # <<>>
    /\ window[1] = 1
    /\ \E j, k \in 1..Len(to_receiver) :
          j < k /\ to_receiver[j] = file_data[2] /\ to_receiver[k] = file_data[2]
    /\ faults = 0

\* C36: the step of the Sender that runs read_file leaves in file_data
\* N = ceil(file_size / packet_size) packets with the indices 0 .. N - 1 in
\* order, every payload of packet_size bytes but the last, which has the rest
\* of the file, the payloads being the file cut in order; the window holds
\* the first Min(window_size, N) indices in order; and only a packet that the
\* first pass of the step sends is awaiting afterwards.
C36_InitialFill ==
    [][(Sender_handle_connection /\ s_pc' # "start")
       => LET N == (Len(file) + packet_size - 1) \div packet_size
          IN /\ Len(file_data') = N
             /\ \A k \in 1..N :
                   /\ from_bytes(SubSeq(file_data'[k], 1, 8)) = k - 1
                   /\ Len(file_data'[k]) - 48 =
                         (IF k < N THEN packet_size ELSE Len(file) - (N - 1) * packet_size)
                   /\ Len(file_data'[k]) - 48 >= 1
                   /\ SubSeq(file_data'[k], 49, Len(file_data'[k])) =
                         SubSeq(file, (k - 1) * packet_size + 1,
                                (k - 1) * packet_size + Len(file_data'[k]) - 48)
             /\ window' = [k \in 1..(IF window_size < N THEN window_size ELSE N) |-> k - 1]
             /\ s_current_package' = 0
             /\ \A p \in 0..(N - 1) :
                   is_awaiting_ack'[p]
                       => \E k \in 1..Len(to_receiver') : to_receiver'[k] = file_data'[p + 1]]_vars

\* C36 witness: read_file has cut a file of 3 bytes in packets of 2 bytes: two
\* packets, the last with 1 byte, and a window of 1 that holds packet 0.
C36_Witness ==
    /\ s_pc = "recv"
    /\ s_current_package = 0
    /\ Len(file) = 3
    /\ packet_size = 2
    /\ Len(file_data) = 2
    /\ Len(file_data[2]) = 49
    /\ window = <<0>>

\* C37: for a file of size 0 the step of the Sender that reads the readiness
\* datagram sends the file info and nothing else and ends the session with an
\* empty window; and the step of the Receiver that reads this file info ends
\* the Receiver with an empty output file written under the Sender's file
\* name, without a send or a wait for a data packet.
C37_EmptyFile ==
    /\ [][(file = <<>> /\ Sender_handle_connection /\ s_pc' # "start")
          => /\ s_pc' = "done"
             /\ window' = <<>>
             /\ file_data' = <<>>
             /\ to_receiver' = Append(to_receiver, to_bytes(0) \o file_name)]_vars
    /\ [][(file = <<>> /\ Receiver_handle_connection
              /\ Head(to_receiver) = to_bytes(0) \o file_name)
          => /\ r_pc' = "done"
             /\ output' = <<[name |-> file_name, bytes |-> <<>>]>>
             /\ to_sender' = to_sender
             /\ buffer' = <<>>]_vars

\* C37 witness: the transfer of the empty file has ended on both sides, the
\* empty output written and no datagram left.
C37_Witness ==
    /\ file = <<>>
    /\ s_pc = "done"
    /\ r_pc = "done"
    /\ output = <<[name |-> file_name, bytes |-> <<>>]>>
    /\ to_receiver = <<>>
    /\ faults = 0
====
